---- MODULE Spec2Model ----
(***************************************************************************)
(* A model of the SynthMed patient simulation engine:                      *)
(*   synthmed/config.py            Config                                  *)
(*   synthmed/engine/module.py     ModuleLoader.load_modules               *)
(*   synthmed/engine/generator.py  Generator                               *)
(*   synthmed/engine/engine.py     Engine.run, Engine._generate_population *)
(*   synthmed/models/base.py       SynthmedBaseModel (id, created_at)      *)
(*                                                                         *)
(* Two specifications share the pure layer below:                          *)
(*   Spec     the population orchestrator; one call of generate_patient    *)
(*            is one atomic step of the process that runs it;              *)
(*   SimSpec  one call of generate_patient, stepped statement by statement *)
(*            through the time loop of _run_modules.                       *)
(***************************************************************************)
EXTENDS Integers, Sequences, FiniteSets, TLC

\* ------------------------------------------------------------------------
\* Bounds of the model
\* ------------------------------------------------------------------------

\* Number of states of the abstract pseudo random generator.
RngModulus == 32

\* Depth at which the interpreter raises RecursionError (sys.getrecursionlimit
\* is 1000 in CPython; the model counts calls of generate_patient only).
RecursionLimit == 2

\* Largest reading of the wall clock (datetime.now) in abstract ticks.
MaxWall == 1

\* A population small enough for the sequential path.
SmallPopulation == 2

\* ------------------------------------------------------------------------
\* Program constants
\* ------------------------------------------------------------------------

\* engine.py:106  population_size <= 10 takes the sequential path
SEQUENTIAL_THRESHOLD == 10

\* json_exporter.py:49  the largest population written as one file a patient
INDIVIDUAL_FILES_LIMIT == 1000

\* generator.py:198  time_step_days = 7
time_step_days == 7

\* generator.py:294  state.get("direct_transition_probability", 0.01), in percent
DEFAULT_DEATH_PROBABILITY == 1

\* generator.py:103  max_day = 28
MAX_DAY == 28

\* Optional[T]: None is the empty sequence, a value v is <<v>>
None == <<>>
Some(v) == <<v>>

Min(a, b) == IF a <= b THEN a ELSE b
Max(a, b) == IF a >= b THEN a ELSE b
Abs(x) == IF x < 0 THEN 0 - x ELSE x

\* ------------------------------------------------------------------------
\* datetime.date: the proleptic Gregorian calendar, dates held as ordinals
\* ------------------------------------------------------------------------

IsLeap(y) == (y % 4 = 0) /\ ((y % 100 # 0) \/ (y % 400 = 0))

DaysInMonth(y, m) ==
    IF m = 2 THEN (IF IsLeap(y) THEN 29 ELSE 28)
    ELSE IF m \in {4, 6, 9, 11} THEN 30 ELSE 31

DaysBeforeYear(y) ==
    LET p == y - 1 IN p * 365 + (p \div 4) - (p \div 100) + (p \div 400)

RECURSIVE DaysBeforeMonth(_, _)
DaysBeforeMonth(y, m) ==
    IF m <= 1 THEN 0 ELSE DaysBeforeMonth(y, m - 1) + DaysInMonth(y, m - 1)

\* date(y, m, d).toordinal()
ToOrdinal(y, m, d) == DaysBeforeYear(y) + DaysBeforeMonth(y, m) + d

\* date.fromordinal(n): the year, month and day of the date of ordinal n
FromOrdinal(n) ==
    LET y == CHOOSE c \in (n \div 366) .. ((n \div 365) + 1) :
                 DaysBeforeYear(c) < n /\ n <= DaysBeforeYear(c + 1)
        m == CHOOSE c \in 1 .. 12 :
                 /\ DaysBeforeMonth(y, c) < n - DaysBeforeYear(y)
                 /\ n - DaysBeforeYear(y) <= DaysBeforeMonth(y, c) + DaysInMonth(y, c)
    IN  [year |-> y, month |-> m, day |-> n - DaysBeforeYear(y) - DaysBeforeMonth(y, m)]

\* date(y, m, d) raises ValueError outside the calendar
ValidDate(y, m, d) ==
    /\ y >= 1 /\ y <= 9999
    /\ m >= 1 /\ m <= 12
    /\ d >= 1 /\ d <= DaysInMonth(y, m)

\* ------------------------------------------------------------------------
\* The random module: one generator per process, abstracted to a linear
\* congruential generator over 0..RngModulus-1.  A stream value r carries
\* the generator state r.s and the log r.log of the raw draws taken from it.
\* ------------------------------------------------------------------------

RngStates == 0 .. (RngModulus - 1)

Advance(s) == (5 * s + 3) % RngModulus

\* random.seed(a): an int seeds by its absolute value
SeedState(a) == (7 * Abs(a) + 1) % RngModulus

Stream(s) == [s |-> s, log |-> <<>>]

\* one raw draw: the generator state moves, the draw is logged
Draw(r) == LET s2 == Advance(r.s) IN [s |-> s2, log |-> Append(r.log, s2)]

\* random.random() < num/den, for the draw held in r.s
Below(r, num, den) == r.s * den < num * RngModulus

\* random.random() > num/den
Above(r, num, den) == r.s * den > num * RngModulus

\* the value of random.randint(a, b) / random.choice for the draw held in r.s
Scaled(r, n) == (r.s * n) \div RngModulus

\* ------------------------------------------------------------------------
\* Strings that the code searches: sequences of characters
\* ------------------------------------------------------------------------

\* str.lower() on the characters the remarks use
LowerChar(c) ==
    IF c = "F" THEN "f" ELSE IF c = "M" THEN "m" ELSE IF c = "O" THEN "o" ELSE c

lower(s) == [k \in 1 .. Len(s) |-> LowerChar(s[k])]

\* sub in s
Contains(sub, s) ==
    \E k \in 0 .. (Len(s) - Len(sub)) : SubSeq(s, k + 1, k + Len(sub)) = sub

FEMALE_ONLY == <<"f", "e", "m", "a", "l", "e", " ", "o", "n", "l", "y">>
MALE_ONLY == <<"m", "a", "l", "e", " ", "o", "n", "l", "y">>

\* f"p{patient_id:06d}": the decimal digits, zero padded to six places
RECURSIVE Digits(_)
Digits(n) == IF n < 10 THEN <<n>> ELSE Append(Digits(n \div 10), n % 10)

RECURSIVE PadLeft(_, _)
PadLeft(ds, width) == IF Len(ds) >= width THEN ds ELSE PadLeft(<<0>> \o ds, width)

PatientId(patient_id) == <<"p">> \o PadLeft(Digits(patient_id), 6)

\* ------------------------------------------------------------------------
\* utils/demographics.py: the default tables
\* ------------------------------------------------------------------------

\* DEFAULT_RACE_DISTRIBUTION in dict order, probabilities in percent
DEFAULT_RACE_DISTRIBUTION ==
    << <<"white", 60>>, <<"black", 13>>, <<"asian", 6>>,
       <<"native", 2>>, <<"hispanic", 18>>, <<"other", 1>> >>

DEFAULT_FIRST_NAMES_MALE ==
    << "James", "John", "Robert", "Michael", "William", "David", "Richard",
       "Joseph", "Thomas", "Charles", "Christopher", "Daniel", "Matthew",
       "Anthony", "Mark", "Donald", "Steven", "Paul", "Andrew", "Joshua" >>

DEFAULT_FIRST_NAMES_FEMALE ==
    << "Mary", "Patricia", "Jennifer", "Linda", "Elizabeth", "Barbara", "Susan",
       "Jessica", "Sarah", "Karen", "Nancy", "Lisa", "Margaret", "Betty",
       "Sandra", "Ashley", "Dorothy", "Kimberly", "Emily", "Donna" >>

DEFAULT_LAST_NAMES ==
    << "Smith", "Johnson", "Williams", "Brown", "Jones", "Miller", "Davis",
       "Garcia", "Rodriguez", "Wilson", "Martinez", "Anderson", "Taylor",
       "Thomas", "Hernandez", "Moore", "Martin", "Jackson", "Thompson", "White" >>

DEFAULT_LOCATIONS ==
    << <<"Massachusetts", "Boston", "02108">>,
       <<"New York", "New York", "10001">>,
       <<"California", "Los Angeles", "90001">>,
       <<"Texas", "Houston", "77001">>,
       <<"Florida", "Miami", "33101">> >>

\* Config.gender_ratio default, in dict order, in percent
DEFAULT_GENDER_RATIO == << <<"M", 49>>, <<"F", 51>> >>

\* Demographics.get_ethnicity
get_ethnicity(race) == IF race = "hispanic" THEN "hispanic" ELSE "non-hispanic"

\* random.choice(seq) for the draw held in r.s
choice(r, seq) == seq[Scaled(r, Len(seq)) + 1]

\* random.randint(a, b) for the draw held in r.s (a <= b)
randint(r, a, b) == a + Scaled(r, b - a + 1)

\* The first entry of a (name, percent) table whose cumulative share exceeds
\* the draw held in r.s; dflt when the loop ends without returning.
RECURSIVE Cumulative(_, _, _, _, _)
Cumulative(r, table, k, cum, dflt) ==
    IF k > Len(table) THEN dflt
    ELSE IF Below(r, cum + table[k][2], 100) THEN table[k][1]
    ELSE Cumulative(r, table, k + 1, cum + table[k][2], dflt)

\* Generator._randomly_select_gender, after the draw
randomly_select_gender(r, config) == Cumulative(r, config.gender_ratio, 1, 0, "F")

\* Generator._randomly_select_race, after the draw
randomly_select_race(r) == Cumulative(r, DEFAULT_RACE_DISTRIBUTION, 1, 0, "other")

\* ------------------------------------------------------------------------
\* Generator._generate_demographics (generator.py:71-136)
\* ------------------------------------------------------------------------

\* An exception leaving a call: the stream as the call left it, no patient.
Raised(exc, r) == [exc |-> exc, r |-> r, patient |-> None]

\* models/patient.py + models/base.py: the Patient built at generator.py:116,
\* created_at read from the wall clock by the default factory.
Patient(patient_id, now, first_name, last_name, gender, race, ethnicity, birth_date, income) ==
    [ id |-> PatientId(patient_id),
      created_at |-> now,
      first_name |-> first_name,
      last_name |-> last_name,
      gender |-> IF gender = "M" THEN "male" ELSE "female",
      race |-> race,
      ethnicity |-> ethnicity,
      birth_date |-> birth_date,
      death_date |-> None,
      income |-> income,
      state |-> None, city |-> None, zip_code |-> None, address |-> None,
      conditions |-> <<>>, encounters |-> <<>>, medications |-> <<>>,
      procedures |-> <<>>, observations |-> <<>>,
      is_alive |-> TRUE ]

\* models/patient.py:94-104  Patient.age read on the day today
age(patient, today) ==
    LET end_date == IF patient.death_date # None
                    THEN FromOrdinal(patient.death_date[1]) ELSE today
        birth == FromOrdinal(patient.birth_date)
        years == end_date.year - birth.year
        before == \/ end_date.month < birth.month
                  \/ end_date.month = birth.month /\ end_date.day < birth.day
    IN  Max(0, IF before THEN years - 1 ELSE years)

\* generator.py:96-104 the month and the day, from the streams r4 and r5
BirthMonth(r4, birth_year, today) ==
    IF birth_year = today.year THEN randint(r4, 1, today.month)
    ELSE randint(r4, 1, 12)

BirthMaxDay(birth_year, birth_month, today) ==
    IF birth_year = today.year
    THEN (IF birth_month = today.month THEN today.day ELSE MAX_DAY)
    ELSE MAX_DAY

\* generator.py:108-136, once the birth date is known
DemographicsTail(config, patient_id, r5, today, now, gender, race, birth_date) ==
    LET r6 == Draw(r5)
        first_name == IF gender = "M" THEN choice(r6, DEFAULT_FIRST_NAMES_MALE)
                      ELSE choice(r6, DEFAULT_FIRST_NAMES_FEMALE)
        r7 == Draw(r6)
        last_name == choice(r7, DEFAULT_LAST_NAMES)
        r8 == Draw(r7)
        income_level == randint(r8, 0, 100000)
        patient == Patient(patient_id, now, first_name, last_name, gender, race,
                           get_ethnicity(race), birth_date, income_level)
        r9 == Draw(r8)
        location == choice(r9, DEFAULT_LOCATIONS)
        r10 == Draw(r9)
    IN  [ exc |-> "none", r |-> r10,
          patient |-> [patient EXCEPT !.state = Some(location[1]),
                                      !.city = Some(location[2]),
                                      !.zip_code = Some(location[3]),
                                      !.address = Some(randint(r10, 100, 9999))] ]

generate_demographics(config, patient_id, r0, today, now) ==
    LET r1 == Draw(r0)
        gender == randomly_select_gender(r1, config)
        r2 == Draw(r1)
        race == randomly_select_race(r2)
        min_birth_year == today.year - config.max_age
        max_birth_year == today.year - config.min_age
    IN  IF min_birth_year > max_birth_year
        THEN Raised("ValueError", r2)      \* random.randint: empty range
        ELSE LET r3 == Draw(r2)
                 birth_year == randint(r3, min_birth_year, max_birth_year)
                 r4 == Draw(r3)
                 birth_month == BirthMonth(r4, birth_year, today)
                 r5 == Draw(r4)
                 birth_day == randint(r5, 1, BirthMaxDay(birth_year, birth_month, today))
             IN  IF ~ValidDate(birth_year, birth_month, birth_day)
                 THEN Raised("ValueError", r5)   \* date(): year out of range
                 ELSE DemographicsTail(config, patient_id, r5, today, now, gender, race,
                                       ToOrdinal(birth_year, birth_month, birth_day))

\* ------------------------------------------------------------------------
\* Generator._run_modules and what it calls (generator.py:187-299).
\* A module is a dict: a function whose domain holds the keys it defines.
\* ------------------------------------------------------------------------

Has(module, key) == key \in DOMAIN module

\* module.get("priority", 0)
Priority(module) == IF Has(module, "priority") THEN module.priority ELSE 0

\* module.get("name", "")
ModuleName(module) == IF Has(module, "name") THEN module.name ELSE ""

\* sorted(): a stable sort on the key, here by insertion from the left
RECURSIVE InsertByPriority(_, _)
InsertByPriority(sorted, module) ==
    IF sorted = <<>> THEN <<module>>
    ELSE IF Priority(sorted[Len(sorted)]) <= Priority(module)
         THEN Append(sorted, module)
         ELSE Append(InsertByPriority(SubSeq(sorted, 1, Len(sorted) - 1), module),
                     sorted[Len(sorted)])

RECURSIVE SortFrom(_, _, _)
SortFrom(modules, k, acc) ==
    IF k > Len(modules) THEN acc
    ELSE SortFrom(modules, k + 1, InsertByPriority(acc, modules[k]))

\* generator.py:195  sorted(self.modules, key=lambda m: m.get("priority", 0))
SortedModules(modules) == SortFrom(modules, 1, <<>>)

\* generator.py:252-256  the gender restriction read from the remarks
GenderAllows(module, patient) ==
    IF Has(module, "remarks")
    THEN /\ ~(Contains(FEMALE_ONLY, lower(module.remarks)) /\ patient.gender # "female")
         /\ ~(Contains(MALE_ONLY, lower(module.remarks)) /\ patient.gender # "male")
    ELSE TRUE

\* RequiredStatesMet for a scheduler that does not look at required_states
RequiredStatesIgnored(module, active_conditions) == TRUE

\* generator.py:264-269  every required state is a key of active_conditions
RequiredStatesMet(module, active_conditions) ==
    IF Has(module, "required_states")
    THEN \A k \in 1 .. Len(module.required_states) :
             module.required_states[k] \in active_conditions
    ELSE TRUE

\* Generator._should_run_module: [run, r]
should_run_module(module, patient, active_conditions, r) ==
    IF ~GenderAllows(module, patient) THEN [run |-> FALSE, r |-> r]
    ELSE LET r1 == IF Has(module, "probability") THEN Draw(r) ELSE r
         IN  IF Has(module, "probability") /\ Above(r1, module.probability, 100)
             THEN [run |-> FALSE, r |-> r1]
             ELSE [run |-> RequiredStatesMet(module, active_conditions), r |-> r1]

\* state.get("direct_transition_probability", 0.01), in percent
DeathProbability(state) ==
    IF Has(state, "direct_transition_probability")
    THEN state.direct_transition_probability
    ELSE DEFAULT_DEATH_PROBABILITY

\* Die with the assignment of generator.py:298 left out
DieWithoutDate(patient, current_date) == [patient EXCEPT !.is_alive = FALSE]

\* Die for a Death state that records the date and leaves is_alive as it was
DieStillAlive(patient, current_date) ==
    [patient EXCEPT !.death_date = Some(current_date)]

\* generator.py:297-298  the patient after a successful death draw
Die(patient, current_date) ==
    [patient EXCEPT !.is_alive = FALSE, !.death_date = Some(current_date)]

\* A str where the code expects a dict: module["states"] given as a dict of
\* states keyed by name (the layout Module.state_names reads, module.py:35-42)
\* yields its keys when iterated.  The str s is the record [str |-> s].
IsStr(value) == Has(value, "str")

\* generator.py:288-299  the loop over module["states"] from state k on:
\* [patient, r, exc].  state.get raises AttributeError on a str.
RECURSIVE ProcessStates(_, _, _, _, _)
ProcessStates(states, k, patient, current_date, r) ==
    IF k > Len(states) THEN [patient |-> patient, r |-> r, exc |-> "none"]
    ELSE IF IsStr(states[k])
         THEN [patient |-> patient, r |-> r, exc |-> "AttributeError"]
    ELSE IF Has(states[k], "type") /\ states[k].type = "Death"
         THEN LET r1 == Draw(r)
              IN  IF Below(r1, DeathProbability(states[k]), 100)
                  THEN [patient |-> Die(patient, current_date), r |-> r1, exc |-> "none"]
                  ELSE ProcessStates(states, k + 1, patient, current_date, r1)
         ELSE ProcessStates(states, k + 1, patient, current_date, r)

\* Generator._process_module: [patient, r, exc]
process_module(module, patient, current_date, r) ==
    IF Has(module, "states")
    THEN ProcessStates(module.states, 1, patient, current_date, r)
    ELSE [patient |-> patient, r |-> r, exc |-> "none"]

\* generator.py:226-228  the module is processed when it should run:
\* [patient, r, exc, ran], ran telling whether it was
ProcessIf(should, module, patient, current_date) ==
    IF should.run
    THEN [ran |-> TRUE] @@ process_module(module, patient, current_date, should.r)
    ELSE [patient |-> patient, r |-> should.r, exc |-> "none", ran |-> FALSE]

\* The condition tracker of a scheduler that records a condition at birth
ActiveConditionsWithDiabetes == {"diabetes"}

\* generator.py:208  active_conditions: created empty, passed to
\* _should_run_module at line 225 and never written
ActiveConditions == {}

\* generator.py:221-228  the body of the for loop for one module; st holds
\* the patient and the stream
EvaluateModule(module, st, active_conditions, current_date) ==
    ProcessIf(should_run_module(module, st.patient, active_conditions, st.r),
              module, st.patient, current_date)

\* generator.py:221  for module in modules, from the k-th module on; an
\* exception of an evaluation leaves the loop
RECURSIVE ForModules(_, _, _, _, _)
ForModules(modules, k, st, active_conditions, current_date) ==
    IF st.exc # "none" \/ k > Len(modules)
    THEN [patient |-> st.patient, r |-> st.r, exc |-> st.exc]
    ELSE ForModules(modules, k + 1,
                    EvaluateModule(modules[k], st, active_conditions, current_date),
                    active_conditions, current_date)

\* LoopCondition without the test of patient.is_alive
LoopConditionIgnoringDeath(current_date, end_date, patient) == current_date <= end_date

\* LoopCondition with the end of the timeline one step late
LoopConditionOneStepLate(current_date, end_date, patient) ==
    current_date <= end_date + time_step_days /\ patient.is_alive

\* generator.py:211  the condition of the while loop
LoopCondition(current_date, end_date, patient) ==
    current_date <= end_date /\ patient.is_alive

\* generator.py:211-231  the while loop: [patient, r, exc, current_date] at
\* its exit or when an evaluation raised
RECURSIVE WhileLoop(_, _, _, _)
WhileLoop(modules, st, current_date, end_date) ==
    IF st.exc # "none"
    THEN [patient |-> st.patient, r |-> st.r, exc |-> st.exc, current_date |-> current_date]
    ELSE IF LoopCondition(current_date, end_date, st.patient)
    THEN IF current_date - st.patient.birth_date < 0
         THEN WhileLoop(modules, st, current_date + time_step_days, end_date)
         ELSE WhileLoop(modules, ForModules(modules, 1, st, ActiveConditions, current_date),
                        current_date + time_step_days, end_date)
    ELSE [patient |-> st.patient, r |-> st.r, exc |-> "none", current_date |-> current_date]

\* RecordDeath for a scheduler that assigns no death date
RecordDeathNever(exit) == [patient |-> exit.patient, r |-> exit.r, exc |-> exit.exc]

\* generator.py:234-237  a dead patient without a death date gets one;
\* exit is the while loop's [patient, r, exc, current_date]
RecordDeath(exit) ==
    IF exit.exc = "none" /\ ~exit.patient.is_alive /\ exit.patient.death_date = None
    THEN LET r1 == Draw(exit.r)
         IN  [patient |-> [exit.patient EXCEPT !.death_date =
                              Some(exit.current_date - randint(r1, 0, time_step_days))],
              r |-> r1, exc |-> "none"]
    ELSE [patient |-> exit.patient, r |-> exit.r, exc |-> exit.exc]

\* Generator._run_modules: [patient, r, exc]
run_modules(modules, patient, r, today) ==
    RecordDeath(WhileLoop(SortedModules(modules),
                          [patient |-> patient, r |-> r, exc |-> "none"],
                          patient.birth_date,
                          ToOrdinal(today.year, today.month, today.day)))

\* generator.py:55  the seed derived for a patient: self.config.seed + patient_id
DerivedSeed(config, patient_id) == config.seed[1] + patient_id

\* SeedFor with random.seed(seed): the ordinal does not enter the seed
SeedForSeedAlone(config, patient_id, r) ==
    IF config.seed # None
    THEN [r EXCEPT !.s = SeedState(config.seed[1])]
    ELSE r

\* SeedFor without the call of random.seed: the stream goes on where it was
SeedForNever(config, patient_id, r) == r

\* generator.py:54-56  random.seed(seed + patient_id) when a seed is configured
SeedFor(config, patient_id, r) ==
    IF config.seed # None
    THEN [r EXCEPT !.s = SeedState(DerivedSeed(config, patient_id))]
    ELSE r

\* MustRegenerate for a generator that returns whatever it generated
NeverRegenerate(config, patient) == FALSE

\* generator.py:65  the dead patient is to be generated again
MustRegenerate(config, patient) ==
    config.generate_only_living_patients /\ ~patient.is_alive

RECURSIVE generate_patient(_, _, _, _, _, _, _)

\* generator.py:64-69  after _run_modules: the recursive call or the return.
\* depth counts the calls on the stack; the call that would exceed
\* RecursionLimit raises.
AfterRun(config, modules, patient_id, today, now, depth, run) ==
    IF run.exc # "none" THEN Raised(run.exc, run.r)
    ELSE IF MustRegenerate(config, run.patient)
    THEN IF depth >= RecursionLimit
         THEN Raised("RecursionError", run.r)
         ELSE generate_patient(config, modules, patient_id, run.r, today, now, depth + 1)
    ELSE [exc |-> "none", r |-> run.r, patient |-> run.patient]

\* generator.py:59-62  after _generate_demographics: its exception, or the run
AfterDemographics(config, modules, patient_id, today, now, depth, demo) ==
    IF demo.exc # "none" THEN demo
    ELSE AfterRun(config, modules, patient_id, today, now, depth,
                  run_modules(modules, demo.patient, demo.r, today))

\* Generator.generate_patient: [exc, patient, r]
generate_patient(config, modules, patient_id, r, today, now, depth) ==
    AfterDemographics(config, modules, patient_id, today, now, depth,
                      generate_demographics(config, patient_id,
                                            SeedFor(config, patient_id, r), today, now))

\* ------------------------------------------------------------------------
\* The inputs the model explores
\* ------------------------------------------------------------------------

\* date.today() of the run
Todays == { [year |-> 2026, month |-> 2, day |-> 20] }

\* States a process' generator can start in when nothing seeds it
Entropy == { 1, RngModulus - 14 }

Chars_female_only == <<"F", "e", "m", "a", "l", "e", " ", "o", "n", "l", "y">>
Chars_male_only == <<"M", "a", "l", "e", " ", "o", "n", "l", "y">>

Mortality ==
    [ name |-> "mortality", priority |-> 2,
      states |-> << [type |-> "Initial"],
                    [type |-> "Death", direct_transition_probability |-> 50] >> ]

Wellness == [ name |-> "wellness", priority |-> 1, probability |-> 50 ]

Zeta ==
    [ name |-> "zeta", priority |-> 1,
      states |-> << [type |-> "Death"] >> ]

Alpha ==
    [ name |-> "alpha", priority |-> 1,
      states |-> << [type |-> "Death", direct_transition_probability |-> 10] >> ]

Pregnancy == [ name |-> "pregnancy", remarks |-> Chars_female_only ]

Prostate == [ name |-> "prostate", remarks |-> Chars_male_only ]

FollowUp == [ name |-> "followup", required_states |-> <<"diabetes">> ]

\* A module with two Death states
Frailty ==
    [ name |-> "frailty", priority |-> 1,
      states |-> << [type |-> "Death", direct_transition_probability |-> 10],
                    [type |-> "Death", direct_transition_probability |-> 50] >> ]

\* A module whose state has three outgoing transitions of weights 2, 1, 1
Triage ==
    [ name |-> "triage", priority |-> 1,
      states |-> << [type |-> "Simple",
                     distributed_transition |->
                         << [transition |-> "Ward", distribution |-> 2],
                            [transition |-> "Clinic", distribution |-> 1],
                            [transition |-> "Home", distribution |-> 1] >>] >> ]

\* A deadly module that waits for a condition the patient does not have
Complication ==
    [ name |-> "complication", priority |-> 1, required_states |-> <<"diabetes">>,
      states |-> << [type |-> "Death", direct_transition_probability |-> 50] >> ]

\* A module whose states are a dict keyed by state name: the loop over
\* module["states"] meets the keys
Keyed ==
    [ name |-> "keyed", priority |-> 1,
      states |-> << [str |-> "Initial"], [str |-> "Terminal"] >> ]

\* Module lists handed to Generator(config, modules)
ModuleLists ==
    { <<>>, <<Mortality, Wellness>>, <<Zeta, Alpha>>, <<Pregnancy, FollowUp, Prostate>>,
      <<Frailty>>, <<Triage>>, <<Complication>>, <<Wellness, Keyed>> }

\* Module lists handed to Engine._generate_population(modules)
PopulationModuleLists == { <<Mortality, Wellness>>, <<Zeta, Alpha>> }

BaseConfig ==
    [ population_size |-> SmallPopulation, min_age |-> 0, max_age |-> 1,
      seed |-> None, max_workers |-> 1,
      generate_only_living_patients |-> FALSE,
      gender_ratio |-> DEFAULT_GENDER_RATIO ]

\* Well-formed run parameters: the small populations take the sequential
\* path; the large one takes it with one worker and the pool with two.  The
\* pooled runs explored are the seeded ones.
ValidConfigs ==
    { [BaseConfig EXCEPT !.population_size = SmallPopulation, !.seed = sd,
                         !.max_workers = w, !.generate_only_living_patients = live] :
        sd \in {None, Some(3)}, w \in {1, 2}, live \in BOOLEAN }
    \cup
    { [BaseConfig EXCEPT !.population_size = SEQUENTIAL_THRESHOLD + 1, !.seed = Some(3),
                         !.max_workers = w, !.generate_only_living_patients = live] :
        w \in {1, 2}, live \in BOOLEAN }
    \cup { [BaseConfig EXCEPT !.population_size = 0] }

\* Run parameters with one of them out of range
InvalidConfigs ==
    { [BaseConfig EXCEPT !.min_age = 1, !.max_age = 0, !.population_size = n,
                         !.max_workers = w] :
        n \in {SmallPopulation, SEQUENTIAL_THRESHOLD + 1}, w \in {1, 2} }
    \cup { [BaseConfig EXCEPT !.population_size = 0 - 1] }
    \cup { [BaseConfig EXCEPT !.max_workers = 0, !.population_size = n] :
             n \in {SmallPopulation, SEQUENTIAL_THRESHOLD + 1} }

Configs == ValidConfigs \cup InvalidConfigs

\* Definition files of a module directory.  defect tells what is wrong with
\* the content of the file, "none" when it is a well-formed module
WellFormedFile == [file |-> "mortality.json", defect |-> "none"]
NoInitialFile == [file |-> "no_initial.json", defect |-> "missing initial state"]
DanglingFile == [file |-> "dangling.json", defect |-> "dangling transition target"]
WeightsFile == [file |-> "weights.json", defect |-> "malformed probability weights"]
UnreadableFile == [file |-> "unreadable.json", defect |-> "unreadable"]

\* The module directories explored: a missing path, a directory of one
\* well-formed definition, and directories holding defective ones
ModuleDirs ==
    { None,
      Some(<<WellFormedFile>>),
      Some(<<WellFormedFile, NoInitialFile>>),
      Some(<<DanglingFile, WeightsFile, UnreadableFile>>) }

\* What the specification calls valid run parameters
ValidRunParameters(c) ==
    /\ c.population_size >= 0
    /\ c.min_age >= 0
    /\ c.min_age <= c.max_age
    /\ c.max_workers >= 1

\* ------------------------------------------------------------------------
\* State
\* ------------------------------------------------------------------------

VARIABLES
    config,      \* the Config of the run
    modules,     \* Generator.modules
    today,       \* date.today() of the run
    wall,        \* the reading of the wall clock, datetime.now()
    phase,       \* where Engine.run / _generate_population stands
    next,        \* the next ordinal of range(population_size) to be generated
    rng,         \* process -> state of its random generator (0 is the main process)
    writer,      \* process -> the ordinal whose generation last wrote rng[process]
    busy,        \* worker -> the ordinal it is generating
    patients,    \* the list _generate_population builds
    errors,      \* number of "Error generating patient" records logged
    outcome,     \* ordinal -> how its call of generate_patient ended
    last,        \* the latest call of generate_patient and its outcome
    loaded,      \* what ModuleLoader.load_modules read and what it answered
    exporter,    \* the exporter of the run and the files of its output directory
    sim          \* one call of generate_patient, statement by statement

envVars == <<config, modules, today, wall, loaded, exporter>>
popVars == <<phase, next, rng, writer, busy, patients, errors, outcome, last>>
vars == <<config, modules, today, wall, phase, next, rng, writer, busy, patients,
          errors, outcome, last, loaded, exporter, sim>>

MAIN == 0

Workers == 1 .. Max(config.max_workers, 0)

NoCall == [ordinal |-> None]

\* A module directory: None when the path does not exist, else the sequence
\* of its definition files, each with the defect of its content
Exists(module_path) == module_path # None

\* load_modules for a loader that reads a module out of an existing directory
load_modules_reading(module_path) ==
    IF ~Exists(module_path)
    THEN [exc |-> "none", modules |-> <<>>]
    ELSE [exc |-> "none", modules |-> <<Mortality>>]

\* module.py:86-98  load_modules returns [] on both of its paths and never
\* reads a file: [exc, modules]
load_modules(module_path) ==
    IF ~Exists(module_path)
    THEN [exc |-> "none", modules |-> <<>>]
    ELSE [exc |-> "none", modules |-> <<>>]

\* The output directory of a new exporter (exporters/base.py:25-35)
NoExport == [format |-> None, files |-> <<>>]

\* config.py:62-63  random.seed(self.seed) in the process that builds the Config
MainRng(c, e) == IF c.seed # None THEN SeedState(c.seed[1]) ELSE e

\* engine.py:106  the condition of the sequential path
SequentialPath(c) == c.population_size <= SEQUENTIAL_THRESHOLD \/ c.max_workers = 1

\* The ordinal whose generation wrote the generator state that the first draw
\* of generate_patient(patient_id) reads: random.seed overwrites the state
\* without reading it, otherwise the state is the one the process was left with.
FirstReadWriter(c, patient_id, w) == IF c.seed # None THEN Some(patient_id) ELSE w

\* ------------------------------------------------------------------------
\* Spec: Engine.run and Engine._generate_population (engine.py:42-132)
\* ------------------------------------------------------------------------

SimIdle == [pc |-> "idle"]

\* engine.py:106-111  _generate_population chooses its path; the executor
\* refuses a worker count below one
Dispatch(c) ==
    IF SequentialPath(c) THEN "sequential"
    ELSE IF c.max_workers <= 0 THEN "aborted"
    ELSE "pool"

\* engine.py:111-116  the calls submitted to a pool of max_workers processes:
\* worker w starts on call w - 1, the calls from FirstQueued on wait in the queue
FirstTaken(c, w) ==
    IF Dispatch(c) = "pool" /\ w - 1 < c.population_size THEN Some(w - 1) ELSE None

\* FirstQueued for a pool whose queue also holds the calls the workers took
FirstQueuedAgain(c) == 0

FirstQueued(c) ==
    IF Dispatch(c) = "pool" THEN Min(c.max_workers, c.population_size) ELSE 0

Init ==
    /\ config \in Configs
    /\ modules = <<>>
    /\ today \in Todays
    /\ wall \in 0 .. MaxWall
    /\ phase = "created"
    /\ next = 0
    /\ \E e \in Entropy : rng = [p \in {MAIN} |-> MainRng(config, e)]
    /\ writer = [p \in {MAIN} |-> None]
    /\ busy = [w \in Workers |-> None]
    /\ patients = <<>>
    /\ errors = 0
    /\ outcome = <<>>
    /\ last = NoCall
    /\ loaded = None
    /\ exporter = NoExport
    /\ sim = SimIdle

\* The processes of the run once _generate_population has chosen its path: a
\* worker process starts with a generator seeded by the operating system
Started(c, e) ==
    [p \in {MAIN} \cup (IF Dispatch(c) = "pool" THEN 1 .. c.max_workers ELSE {}) |->
        IF p = MAIN THEN rng[MAIN] ELSE e[p]]

\* _generate_population(modules) up to the point where generation begins
Begin(m) ==
    /\ phase = "created"
    /\ modules' = m
    /\ phase' = Dispatch(config)
    /\ \E e \in [Workers -> Entropy] : rng' = Started(config, e)
    /\ writer' = [p \in DOMAIN rng' |-> None]
    /\ busy' = [w \in Workers |-> FirstTaken(config, w)]
    /\ next' = FirstQueued(config)
    /\ UNCHANGED <<config, today, wall, patients, errors, outcome, last, exporter, sim>>

\* engine.py:57-68  Engine.run: the modules load_modules answered go to
\* _generate_population
Load(module_path, answer) ==
    /\ loaded' = Some([module_path |-> module_path, exc |-> answer.exc,
                       modules |-> answer.modules])
    /\ Begin(answer.modules)

EngineRun == \E module_path \in ModuleDirs : Load(module_path, load_modules(module_path))

\* engine.py:92-103  _generate_population(modules) called with a module list
GeneratePopulation ==
    /\ \E m \in PopulationModuleLists : Begin(m)
    /\ UNCHANGED loaded

\* The call generate_patient(i) in process p and the record kept of it
Call(p, i) == generate_patient(config, modules, i, Stream(rng[p]), today, wall, 0)

CallRecord(p, i, res) ==
    [ ordinal |-> Some(i), process |-> p, exc |-> res.exc, draws |-> res.r.log,
      patient |-> res.patient, before |-> rng[p],
      read_from |-> FirstReadWriter(config, i, writer[p]) ]

\* What a call of generate_patient leaves behind in process p
Called(p, i, res) ==
    /\ rng' = [rng EXCEPT ![p] = res.r.s]
    /\ writer' = [writer EXCEPT ![p] = Some(i)]
    /\ outcome' = [j \in DOMAIN outcome \cup {i} |-> IF j = i THEN res.exc ELSE outcome[j]]
    /\ last' = CallRecord(p, i, res)

\* engine.py:107  the comprehension keeps the patient; an exception leaves
\* _generate_population and Engine.run
SequentialOutcome(res) ==
    /\ Called(MAIN, next, res)
    /\ IF res.exc = "none"
       THEN /\ patients' = Append(patients, res.patient)
            /\ next' = next + 1
            /\ phase' = phase
       ELSE /\ phase' = "aborted"
            /\ UNCHANGED <<patients, next>>

\* engine.py:107  one iteration of the list comprehension
SequentialGenerate ==
    /\ phase = "sequential"
    /\ next < config.population_size
    /\ SequentialOutcome(Call(MAIN, next))
    /\ UNCHANGED <<loaded, exporter, config, modules, today, wall, busy, errors, sim>>

\* engine.py:107  the comprehension is exhausted and the list returned
SequentialReturn ==
    /\ phase = "sequential"
    /\ next >= config.population_size
    /\ phase' = "returned"
    /\ UNCHANGED <<loaded, exporter, config, modules, today, wall, next, rng, writer, busy, patients,
                   errors, outcome, last, sim>>

\* engine.py:120-130  the loop over as_completed: the patient is appended,
\* an exception is logged and swallowed
FutureResult(w, i, res) ==
    /\ Called(w, i, res)
    /\ IF res.exc = "none"
       THEN patients' = Append(patients, res.patient) /\ errors' = errors
       ELSE errors' = errors + 1 /\ patients' = patients

\* engine.py:119-130  worker w finishes its call and as_completed hands the
\* future to the loop.  The worker goes on with the next queued call, if any.
WorkerComplete(w) ==
    /\ phase = "pool"
    /\ busy[w] # None
    /\ FutureResult(w, busy[w][1], Call(w, busy[w][1]))
    /\ IF next < config.population_size
       THEN busy' = [busy EXCEPT ![w] = Some(next)] /\ next' = next + 1
       ELSE busy' = [busy EXCEPT ![w] = None] /\ next' = next
    /\ UNCHANGED <<loaded, exporter, config, modules, today, wall, phase, sim>>

\* engine.py:132  every future was handled: the list is returned
PoolReturn ==
    /\ phase = "pool"
    /\ next >= config.population_size
    /\ \A w \in Workers : busy[w] = None
    /\ phase' = "returned"
    /\ UNCHANGED <<loaded, exporter, config, modules, today, wall, next, rng, writer, busy, patients,
                   errors, outcome, last, sim>>

\* ------------------------------------------------------------------------
\* The exporters (exporters/*.py).  The output directory is a function from
\* file names to contents; a file name is the tuple of the parts the code
\* joins.  Of a patient's columns and keys the model keeps those copied from
\* the record unchanged.
\* ------------------------------------------------------------------------

\* open(filepath, "w") and the dump: the file is created or overwritten
Write(files, name, content) ==
    [n \in DOMAIN files \cup {name} |-> IF n = name THEN content ELSE files[n]]

\* models/patient.py:218-237  Patient.to_csv_record
to_csv_record(patient) ==
    [ ID |-> patient.id, FIRST |-> patient.first_name, LAST |-> patient.last_name,
      GENDER |-> patient.gender, RACE |-> patient.race, ETHNICITY |-> patient.ethnicity ]

\* csv_exporter.py:81-86  the sorted union of the keys of the records
CsvFieldnames == << "ETHNICITY", "FIRST", "GENDER", "ID", "LAST", "RACE" >>

\* models/patient.py:128-130  Patient.to_fhir
to_fhir(patient) == [ resourceType |-> "Patient", id |-> patient.id ]

\* models/base.py:29-31  to_dict
to_dict(patient) == patient

\* export_csv writing the row of the first patient only
export_csv_first_row(files, ps) ==
    IF ps = <<>> THEN files
    ELSE Write(files, <<"patients.csv">>,
               [ header |-> CsvFieldnames, rows |-> << to_csv_record(ps[1]) >> ])

\* csv_exporter.py:27-91  CSVExporter.export: with no patient no file is
\* written; the files of the other entities are never written, their lists
\* being empty
export_csv(files, ps) ==
    IF ps = <<>> THEN files
    ELSE Write(files, <<"patients.csv">>,
               [ header |-> CsvFieldnames,
                 rows |-> [k \in 1 .. Len(ps) |-> to_csv_record(ps[k])] ])

\* json_exporter.py:83-92  one file for each patient, from the k-th on
RECURSIVE export_individual_patients(_, _, _)
export_individual_patients(files, ps, k) ==
    IF k > Len(ps) THEN files
    ELSE export_individual_patients(
             Write(files, <<"patients", ps[k].id, ".json">>, to_dict(ps[k])), ps, k + 1)

\* json_exporter.py:54-68  the collection file
export_patients_collection(files, ps) ==
    Write(files, <<"patients.json">>, [k \in 1 .. Len(ps) |-> to_dict(ps[k])])

\* json_exporter.py:36-52  JSONExporter.export
export_json(files, ps) ==
    IF Len(ps) <= INDIVIDUAL_FILES_LIMIT
    THEN export_individual_patients(export_patients_collection(files, ps), ps, 1)
    ELSE export_patients_collection(files, ps)

\* fhir_exporter.py:93-129  the bundle of one patient
create_bundle(patient) ==
    [ resourceType |-> "Bundle", type |-> "collection",
      entry |-> << [fullUrl |-> patient.id, resource |-> to_fhir(patient)] >> ]

\* fhir_exporter.py:36-37  one bundle file for each patient, from the k-th on
RECURSIVE export_patient_bundles(_, _, _)
export_patient_bundles(files, ps, k) ==
    IF k > Len(ps) THEN files
    ELSE export_patient_bundles(
             Write(files, <<ps[k].id, ".fhir.json">>, create_bundle(ps[k])), ps, k + 1)

\* fhir_exporter.py:60-91  the bundle of all patients
export_all_patients_bundle(files, ps) ==
    Write(files, <<"patients.fhir.json">>,
          [ resourceType |-> "Bundle", type |-> "collection",
            entry |-> [k \in 1 .. Len(ps) |->
                          [fullUrl |-> ps[k].id, resource |-> to_fhir(ps[k])]] ])

\* fhir_exporter.py:26-42  FHIRExporter.export
export_fhir(files, ps) ==
    export_all_patients_bundle(export_patient_bundles(files, ps, 1), ps)

Formats == {"fhir", "json", "csv"}

\* exporters/__init__.py:15-38 and the export method of the exporter made
export(format, files, ps) ==
    IF format = "fhir" THEN export_fhir(files, ps)
    ELSE IF format = "json" THEN export_json(files, ps)
    ELSE export_csv(files, ps)

\* engine.py:76-81  the population returned is exported in the configured
\* output format
Export ==
    /\ phase = "returned"
    /\ \E format \in Formats :
          exporter' = [format |-> Some(format),
                       files |-> export(format, exporter.files, patients)]
    /\ phase' = "exported"
    /\ UNCHANGED <<loaded, config, modules, today, wall, next, rng, writer, busy,
                   patients, errors, outcome, last, sim>>

Next ==
    \/ EngineRun
    \/ GeneratePopulation
    \/ SequentialGenerate
    \/ SequentialReturn
    \/ \E w \in Workers : WorkerComplete(w)
    \/ PoolReturn
    \/ Export

Spec == Init /\ [][Next]_vars

\* ------------------------------------------------------------------------
\* SimSpec: one call Generator.generate_patient(patient_id), statement by
\* statement (generator.py:43-69 and 187-237).  sim holds the frame of the
\* call: pc, the patient under construction, the stream r of the process, the
\* locals of _run_modules, and a record of what was evaluated:
\*   step_log     the modules evaluated so far in the current time step
\*   killed       the evaluation that set is_alive to False: its date, its
\*                place in the step, the number of the step
\*   posthumous   the evaluations made while the patient was already dead
\*   steps        the number of time steps begun
\*   evaluations  the number of module evaluations made
\*   entry        the state of the generator when the current attempt began
\*   given        the patient _run_modules was called with
\* ------------------------------------------------------------------------

\* date.today() of the single calls explored
SimTodays == Todays \cup { [year |-> 2026, month |-> 1, day |-> 5] }

\* Run parameters of the single calls explored
SimConfigs ==
    { [BaseConfig EXCEPT !.seed = sd, !.generate_only_living_patients = live,
                         !.min_age = ages[1], !.max_age = ages[2]] :
        sd \in {None, Some(3)}, live \in BOOLEAN,
        ages \in { <<0, 1>>, <<0, 0>>, <<1, 0>>, <<1, 1>> } }

\* Ordinals of the single calls explored
SimOrdinals == 0 .. SmallPopulation

SimFrame(patient_id, s) ==
    [ pc |-> "call", patient_id |-> patient_id, depth |-> 0,
      r0 |-> s, entry |-> s, r |-> Stream(s), patient |-> None, exc |-> "none",
      given |-> None, sorted |-> <<>>, current_date |-> 0, end_date |-> 0, k |-> 0,
      step_log |-> <<>>, killed |-> None, posthumous |-> {},
      steps |-> 0, evaluations |-> 0 ]

SimInit ==
    /\ config \in SimConfigs
    /\ modules \in ModuleLists
    /\ today \in SimTodays
    /\ wall \in 0 .. MaxWall
    /\ phase = "single"
    /\ next = 0
    /\ rng = [p \in {MAIN} |-> 0]
    /\ writer = [p \in {MAIN} |-> None]
    /\ busy = [w \in {} |-> None]
    /\ patients = <<>>
    /\ errors = 0
    /\ outcome = <<>>
    /\ last = NoCall
    /\ loaded = None
    /\ exporter = NoExport
    /\ \E patient_id \in SimOrdinals, s \in RngStates :
          /\ config.seed # None => s = SeedState(config.seed[1])
          /\ config.seed = None => patient_id = 0
          /\ sim = SimFrame(patient_id, s)

\* generator.py:53-59  the seed, then _generate_demographics
Demographics(demo) ==
    IF demo.exc # "none"
    THEN sim' = [sim EXCEPT !.pc = "raised", !.exc = demo.exc, !.r = demo.r]
    ELSE sim' = [sim EXCEPT !.pc = "run_modules", !.patient = demo.patient, !.r = demo.r]

GenerateDemographics ==
    /\ sim.pc = "call"
    /\ Demographics(generate_demographics(config, sim.patient_id,
                       SeedFor(config, sim.patient_id, sim.r), today, wall))
    /\ UNCHANGED <<envVars, popVars>>

\* self.modules after a sort made in place, as self.modules.sort(key=...) would
ModulesSortedInPlace(m) == SortedModules(m)

\* generator.py:195  self.modules after sorted(self.modules, key=...), which
\* builds a new list
ModulesAfterSorted(m) == m

\* generator.py:194-208  _run_modules up to its while loop
EnterRunModules ==
    /\ sim.pc = "run_modules"
    /\ sim' = [sim EXCEPT !.pc = "while",
                          !.given = sim.patient,
                          !.sorted = SortedModules(modules),
                          !.current_date = sim.patient.birth_date,
                          !.end_date = ToOrdinal(today.year, today.month, today.day),
                          !.step_log = <<>>, !.killed = None, !.posthumous = {},
                          !.steps = 0, !.evaluations = 0]
    /\ modules' = ModulesAfterSorted(modules)
    /\ UNCHANGED <<config, today, wall, loaded, exporter, popVars>>

\* generator.py:211-218  the test of the while loop and the step before birth
WhileTest ==
    /\ sim.pc = "while"
    /\ IF LoopCondition(sim.current_date, sim.end_date, sim.patient)
       THEN IF sim.current_date - sim.patient.birth_date < 0
            THEN sim' = [sim EXCEPT !.current_date = @ + time_step_days]
            ELSE sim' = [sim EXCEPT !.pc = "for", !.k = 1, !.step_log = <<>>,
                                    !.steps = @ + 1]
       ELSE sim' = [sim EXCEPT !.pc = "after_loop"]
    /\ UNCHANGED <<envVars, popVars>>

\* The record kept of the evaluation e of module k at the current date; an
\* exception of the evaluation leaves _run_modules and generate_patient
Evaluated(e) ==
    IF e.exc # "none" THEN [sim EXCEPT !.pc = "raised", !.exc = e.exc, !.r = e.r]
    ELSE
    [sim EXCEPT !.patient = e.patient, !.r = e.r, !.k = @ + 1,
                !.step_log = Append(@, sim.sorted[sim.k]),
                !.evaluations = @ + 1,
                !.killed = IF sim.patient.is_alive /\ ~e.patient.is_alive
                           THEN Some([date |-> sim.current_date, k |-> sim.k,
                                      step |-> sim.steps])
                           ELSE @,
                !.posthumous = IF sim.patient.is_alive THEN @
                               ELSE @ \cup {[date |-> sim.current_date, k |-> sim.k,
                                             step |-> sim.steps]}]

\* generator.py:221-228  the for loop evaluates its next module
ForModule ==
    /\ sim.pc = "for"
    /\ sim.k <= Len(sim.sorted)
    /\ sim' = Evaluated(EvaluateModule(sim.sorted[sim.k],
                                       [patient |-> sim.patient, r |-> sim.r, exc |-> "none"],
                                       ActiveConditions, sim.current_date))
    /\ UNCHANGED <<envVars, popVars>>

\* AdvanceTime for a scheduler that stops at a death without advancing the clock
AdvanceTimeUnlessDead ==
    /\ sim.pc = "for"
    /\ sim.k > Len(sim.sorted)
    /\ sim' = [sim EXCEPT !.pc = "while",
                          !.current_date = IF sim.patient.is_alive
                                           THEN @ + time_step_days ELSE @]
    /\ UNCHANGED <<envVars, popVars>>

\* AdvanceTime for a scheduler whose clock moves by one day
AdvanceTimeByDay ==
    /\ sim.pc = "for"
    /\ sim.k > Len(sim.sorted)
    /\ sim' = [sim EXCEPT !.pc = "while", !.current_date = @ + 1]
    /\ UNCHANGED <<envVars, popVars>>

\* AdvanceTime for a scheduler that skips every other date
AdvanceTimeSkipping ==
    /\ sim.pc = "for"
    /\ sim.k > Len(sim.sorted)
    /\ sim' = [sim EXCEPT !.pc = "while", !.current_date = @ + 2 * time_step_days]
    /\ UNCHANGED <<envVars, popVars>>

\* generator.py:231  the for loop is exhausted: advance time
AdvanceTime ==
    /\ sim.pc = "for"
    /\ sim.k > Len(sim.sorted)
    /\ sim' = [sim EXCEPT !.pc = "while", !.current_date = @ + time_step_days]
    /\ UNCHANGED <<envVars, popVars>>

\* generator.py:234-237  after the loop
Recorded(done) == [sim EXCEPT !.pc = "check", !.patient = done.patient, !.r = done.r]

AfterLoop ==
    /\ sim.pc = "after_loop"
    /\ sim' = Recorded(RecordDeath([patient |-> sim.patient, r |-> sim.r, exc |-> "none",
                                    current_date |-> sim.current_date]))
    /\ UNCHANGED <<envVars, popVars>>

\* generator.py:65-69  return the patient, or call generate_patient again
ReturnOrRegenerate ==
    /\ sim.pc = "check"
    /\ IF MustRegenerate(config, sim.patient)
       THEN IF sim.depth >= RecursionLimit
            THEN sim' = [sim EXCEPT !.pc = "raised", !.exc = "RecursionError"]
            ELSE sim' = [SimFrame(sim.patient_id, sim.r0) EXCEPT
                            !.depth = sim.depth + 1, !.r = sim.r,
                            !.entry = sim.r.s]
       ELSE sim' = [sim EXCEPT !.pc = "returned"]
    /\ UNCHANGED <<envVars, popVars>>

SimNext ==
    \/ GenerateDemographics
    \/ EnterRunModules
    \/ WhileTest
    \/ ForModule
    \/ AdvanceTime
    \/ AfterLoop
    \/ ReturnOrRegenerate

SimSpec == SimInit /\ [][SimNext]_vars


\* ------------------------------------------------------------------------
\* RunSpec: one call Generator._run_modules(patient) with a patient handed
\* in by the caller, who may have marked it dead, statement by statement.
\* ------------------------------------------------------------------------

\* Days between the birth of a patient handed in and today
GivenAges == {0 - 2, 3, 20}

\* The patients handed in: living, dead with a death date, dead without one
GivenPatients(end_date) ==
    { [Patient(0, 0, "James", "Smith", "M", "white", "non-hispanic",
               end_date - days, 50000)
          EXCEPT !.is_alive = fate.is_alive, !.death_date = fate.death_date] :
        days \in GivenAges,
        fate \in { [is_alive |-> TRUE, death_date |-> None],
                   [is_alive |-> FALSE, death_date |-> None],
                   [is_alive |-> FALSE, death_date |-> Some(end_date - 1)] } }

RunInit ==
    /\ config = BaseConfig
    /\ modules \in ModuleLists
    /\ today \in Todays
    /\ wall = 0
    /\ phase = "run_modules"
    /\ next = 0
    /\ rng = [p \in {MAIN} |-> 0]
    /\ writer = [p \in {MAIN} |-> None]
    /\ busy = [w \in {} |-> None]
    /\ patients = <<>>
    /\ errors = 0
    /\ outcome = <<>>
    /\ last = NoCall
    /\ loaded = None
    /\ exporter = NoExport
    /\ \E s \in RngStates :
       \E patient \in GivenPatients(ToOrdinal(today.year, today.month, today.day)) :
          sim = [SimFrame(0, s) EXCEPT !.pc = "run_modules", !.patient = patient]

\* generator.py:237  _run_modules returns to its caller
RunModulesReturn ==
    /\ sim.pc = "check"
    /\ sim' = [sim EXCEPT !.pc = "done"]
    /\ UNCHANGED <<envVars, popVars>>

RunNext ==
    \/ EnterRunModules
    \/ WhileTest
    \/ ForModule
    \/ AdvanceTime
    \/ AfterLoop
    \/ RunModulesReturn

RunSpec == RunInit /\ [][RunNext]_vars

\* The interpreter executes the next statement of the call whenever there is one
RunLive == RunSpec /\ WF_vars(RunNext)

\* The stepped call ends as the atomic one does
SimAgrees ==
    sim.pc \in {"returned", "raised"} =>
        LET res == generate_patient(config, modules, sim.patient_id, Stream(sim.r0),
                                    today, wall, 0)
        IN  /\ res.exc = sim.exc
            /\ res.r = sim.r
            /\ sim.pc = "returned" => res.patient = sim.patient

\* ------------------------------------------------------------------------
\* The claims
\* ------------------------------------------------------------------------

\* The latest call of generate_patient, when there is one
Ordinal == last.ordinal[1]
Generated == last.ordinal # None

\* The record an independent run produces for the same ordinal: another
\* process, whose generator starts in state e, at wall clock reading w
IndependentRun(e, w) ==
    generate_patient(config, modules, Ordinal, Stream(e), today, w, 0)

\* C1 (Spec): for a fixed global seed and ordinal, two independent runs
\* produce a patient record whose every field value is identical, on the
\* sequential and on the pooled path, for any worker count and any
\* completion order.
C1_Determinism ==
    (Generated /\ config.seed # None /\ last.exc = "none") =>
        \A e \in Entropy, w \in 0 .. MaxWall :
            IndependentRun(e, w).patient = last.patient

\* C2 (Spec): with a global seed, the sequence of draws consumed while
\* generating ordinal i is a function of (global_seed, i) only: it starts
\* from the state seeded with them and is the same whatever state the
\* process' generator was left in by the patients generated before.
C2_DrawsDependOnSeedAndOrdinal ==
    (Generated /\ config.seed # None) =>
        /\ last.draws # <<>>
        /\ last.draws[1] = Advance(SeedState(config.seed[1] + Ordinal))
        /\ \A e \in Entropy : IndependentRun(e, wall).r.log = last.draws

\* C2 witness: in a seeded pooled run a worker that generated a patient
\* before generates an ordinal below one that is already done, its generator
\* being in a state other than the seeded one when the call begins.
C2_Witness ==
    /\ Generated /\ config.seed # None
    /\ last.process # MAIN
    /\ writer[last.process] # None
    /\ \E j \in DOMAIN outcome : j > Ordinal
    /\ last.before # SeedState(config.seed[1] + Ordinal)
    /\ Len(last.draws) > 10

\* C3 (Spec): nothing written while generating one patient is read while
\* generating another, the state of the random generator included, with or
\* without a global seed: the generator state a call first reads was written
\* by that call or is the one the process started with.
C3_NoSharedState ==
    (Generated /\ last.exc = "none") => last.read_from \in {None, last.ordinal}

\* C4 (SimSpec): once a Death state has set is_alive to False at date D, the
\* death date is D from then on, up to and in the returned record, the record
\* has no more entries, and no module is evaluated at a later time step.
EntryCount(patient) ==
    Len(patient.conditions) + Len(patient.encounters) + Len(patient.medications)
    + Len(patient.procedures) + Len(patient.observations)

C4_DeathFinality ==
    sim.killed # None =>
        /\ ~sim.patient.is_alive
        /\ sim.patient.death_date = Some(sim.killed[1].date)
        /\ EntryCount(sim.patient) = 0
        /\ \A e \in sim.posthumous : e.date = sim.killed[1].date
        /\ sim.pc = "for" => sim.current_date = sim.killed[1].date

\* C4 witness: a patient killed at a date with a later time step left before
\* today is returned.
C4_Witness ==
    /\ sim.pc = "returned"
    /\ sim.killed # None
    /\ sim.killed[1].step > 1
    /\ sim.killed[1].date + time_step_days <= sim.end_date

\* C5 (SimSpec), as claimed: once is_alive is False no other module is
\* evaluated, neither a later module of the same time step nor any module of
\* a later step.
C5_NoEvaluationAfterDeath == sim.posthumous = {}

\* C5 (SimSpec), amended: once is_alive is False no module is evaluated at a
\* later time step; the modules that follow the killing one in the step of
\* death are evaluated, and only they.
C5_NoEvaluationAtLaterStep ==
    /\ \A e \in sim.posthumous :
          /\ sim.killed # None
          /\ e.step = sim.killed[1].step
          /\ e.date = sim.killed[1].date
          /\ e.k > sim.killed[1].k
    /\ (sim.killed # None /\ sim.pc \in {"while", "after_loop", "check", "returned"}) =>
          {e.k : e \in sim.posthumous} = (sim.killed[1].k + 1) .. Len(sim.sorted)

\* C5 witness: the loop has ended for a patient killed by a module that was
\* not the last of its step, at a date with a later step left before today.
C5_Witness ==
    /\ sim.pc = "returned"
    /\ sim.killed # None
    /\ sim.posthumous # {}
    /\ sim.killed[1].date + time_step_days <= sim.end_date

\* C6 (SimSpec): every time step evaluated has a date d with
\* birth_date <= d <= today.
C6_TimelineBound ==
    sim.pc = "for" =>
        /\ sim.patient.birth_date <= sim.current_date
        /\ sim.current_date <= ToOrdinal(today.year, today.month, today.day)

\* C6 witness: a module is about to be evaluated at the last step of a
\* timeline of several steps, less than one step before today.
C6_Witness ==
    /\ sim.pc = "for"
    /\ sim.k <= Len(sim.sorted)
    /\ sim.steps > 1
    /\ sim.current_date + time_step_days >
           ToOrdinal(today.year, today.month, today.day)

\* The names of the modules explored, in the order of Python's str
NameOrder ==
    << "", "alpha", "followup", "mortality", "pregnancy", "prostate", "wellness", "zeta" >>

NameRank(name) == CHOOSE k \in 1 .. Len(NameOrder) : NameOrder[k] = name

\* m1 comes no later than m2: ascending priority, equal priorities by name
InOrder(m1, m2) ==
    \/ Priority(m1) < Priority(m2)
    \/ /\ Priority(m1) = Priority(m2)
       /\ NameRank(ModuleName(m1)) <= NameRank(ModuleName(m2))

\* C7 (SimSpec): within every time step the modules are evaluated in
\* ascending priority order, modules of equal priority in order of their
\* names, whatever order the list was supplied in.
C7_PriorityThenName ==
    \A k \in 1 .. (Len(sim.step_log) - 1) :
        InOrder(sim.step_log[k], sim.step_log[k + 1])

\* C8 (Spec): a failure generating one ordinal is logged and that ordinal is
\* dropped; it never aborts the run, and every other ordinal is generated and
\* returned, on the sequential as on the pooled path.
Returned(i) == \E k \in 1 .. Len(patients) : patients[k].id = PatientId(i)

C8_ErrorIsolation ==
    /\ (Generated /\ last.exc # "none") => phase # "aborted"
    /\ phase = "returned" =>
          \A i \in 0 .. (config.population_size - 1) :
              /\ i \in DOMAIN outcome
              /\ outcome[i] = "none" => Returned(i)
              /\ outcome[i] # "none" => ~Returned(i)

\* C9 (Spec): every run completes with the patients that succeeded and a
\* count of failures with succeeded + failed = population_size.
C9_RunCompletesWithCounts ==
    ValidRunParameters(config) =>
        /\ phase # "aborted"
        /\ phase = "returned" => Len(patients) + errors = config.population_size

\* C10 (Spec): invalid run parameters are rejected before the generation of
\* any patient starts: with such parameters no call of generate_patient is
\* ever made, so none fails, and the run does not return a population.
C10_InvalidParametersRejected ==
    ~ValidRunParameters(config) =>
        /\ DOMAIN outcome = {}
        /\ phase # "returned"

\* C11 (SimSpec): in only-living mode generate_patient makes a bounded number
\* of attempts and never runs into the interpreter's recursion limit, and with
\* a seed every further attempt is seeded differently from the first one,
\* from (seed, ordinal, attempt).
C11_BoundedReseededRetry ==
    config.generate_only_living_patients =>
        /\ sim.exc # "RecursionError"
        /\ (config.seed # None /\ sim.pc = "call" /\ sim.depth > 0) =>
               SeedFor(config, sim.patient_id, sim.r).s
                   # SeedState(config.seed[1] + sim.patient_id)

\* The record _generate_demographics builds in the current attempt
AttemptDemographics ==
    generate_demographics(config, sim.patient_id,
                          SeedFor(config, sim.patient_id, Stream(sim.entry)),
                          today, wall).patient

\* C12 (SimSpec): in only-living mode the record generate_patient returns is
\* alive, has no death date, carries the id of the ordinal, and is the record
\* built from scratch by the attempt that returned it.
C12_OnlyLivingReturned ==
    (sim.pc = "returned" /\ config.generate_only_living_patients) =>
        /\ sim.patient.is_alive
        /\ sim.patient.death_date = None
        /\ sim.patient.id = PatientId(sim.patient_id)
        /\ sim.patient = AttemptDemographics

\* C12 witness: a living patient is returned by an attempt made after an
\* earlier attempt for the same ordinal ended with a dead patient.
C12_Witness ==
    /\ sim.pc = "returned"
    /\ config.generate_only_living_patients
    /\ sim.depth > 0
    /\ sim.patient.is_alive

\* The files of the directory read whose content is not a well-formed module
Defective ==
    IF loaded = None \/ ~Exists(loaded[1].module_path) THEN {}
    ELSE LET dir == loaded[1].module_path[1]
         IN  { dir[k].file : k \in {j \in 1 .. Len(dir) : dir[j].defect # "none"} }

\* C13 (Spec): when the module directory read holds a structurally invalid or
\* unreadable definition, load_modules fails with a load error instead of
\* answering a catalog without that module.
C13_InvalidModuleFailsLoad ==
    (loaded # None /\ Defective # {}) => loaded[1].exc = "LoadError"

\* The module the for loop is about to evaluate
Current == sim.sorted[sim.k]

\* The draws _should_run_module takes for the module: one for its
\* probability, unless the gender restriction returned before
GateDraws(module, patient) ==
    IF GenderAllows(module, patient) /\ Has(module, "probability") THEN 1 ELSE 0

\* The draws _process_module takes in the evaluation the step makes
StateDraws == Len(sim'.r.log) - Len(sim.r.log) - GateDraws(Current, sim.patient)

\* The state a module is in when it is evaluated for the first time
InitialState(module) == IF Has(module, "states") THEN module.states[1] ELSE [type |-> ""]

\* C14 (SimSpec): an evaluation acts on the active state of the module only:
\* it takes at most one draw for the states of the module, in the first time
\* step it takes one only if the initial state of the module is a Death
\* state, and a successful draw sets is_alive to False and death_date to the
\* current date.
C14_ActiveStateOnly ==
    [][ForModule =>
          /\ StateDraws <= 1
          /\ (sim.steps = 1 /\ StateDraws > 0) => InitialState(Current).type = "Death"
          /\ (sim.patient.is_alive /\ ~sim'.patient.is_alive) =>
                 sim'.patient.death_date = Some(sim.current_date)]_vars

\* The module has a state with weighted outgoing transitions
Probabilistic(module) ==
    /\ Has(module, "states")
    /\ \E k \in 1 .. Len(module.states) : Has(module.states[k], "distributed_transition")

\* C15 (SimSpec): the evaluation of a module that stands in a probabilistic
\* state draws exactly once, the draw that selects the transition by the
\* cumulative normalized weights.
C15_ProbabilisticDrawsOnce ==
    [][(ForModule /\ Probabilistic(Current)) => StateDraws = 1]_vars

\* The module waits for a condition: active_conditions is empty throughout
\* _run_modules (generator.py:208), so any required state is unsatisfied
Blocked(module) ==
    Has(module, "required_states") /\ Len(module.required_states) > 0

\* C16 (SimSpec): at every time step the evaluation of a module blocked by an
\* unsatisfied required state leaves the patient's record as it was, appends
\* no entry, and does not process any state of the module.
C16_BlockedModuleNoEffect ==
    [][(ForModule /\ Blocked(Current)) =>
          /\ sim'.patient = sim.patient
          /\ EntryCount(sim'.patient) = 0
          /\ StateDraws = 0]_vars

\* C16 witness: a blocked module with a Death state has been evaluated again
\* at the third or a later time step of a living patient.
C16_Witness ==
    /\ sim.pc = "for"
    /\ sim.steps >= 3
    /\ sim.step_log # <<>>
    /\ Blocked(sim.step_log[Len(sim.step_log)])
    /\ Has(sim.step_log[Len(sim.step_log)], "states")
    /\ sim.patient.is_alive
    /\ sim.evaluations >= 3

\* C17 (SimSpec): the failure of the evaluation of one module does not end the
\* simulation of the patient: generate_patient never raises the exception of a
\* module evaluation, the other modules go on being evaluated.
C17_ModuleFailureIsolated ==
    /\ sim.exc # "AttributeError"
    /\ sim.pc = "raised" => sim.exc \in {"ValueError", "RecursionError"}

\* The ids of the patients in the order of the list exported
PatientIds == [k \in 1 .. Len(patients) |-> patients[k].id]

Written(name) == name \in DOMAIN exporter.files

\* C18 (Spec), as claimed: an export of any list writes one record for each
\* patient of the list, in the order of the list: the FHIR collection bundle
\* one Patient entry each, the JSON collection one object each and the
\* patients directory one file each, the CSV file a header row and one row
\* each.
C18_OneRecordPerPatient ==
    /\ exporter.format = Some("fhir") =>
          /\ Written(<<"patients.fhir.json">>)
          /\ LET entry == exporter.files[<<"patients.fhir.json">>].entry
             IN  [k \in 1 .. Len(entry) |-> entry[k].resource.id] = PatientIds
    /\ exporter.format = Some("json") =>
          /\ Written(<<"patients.json">>)
          /\ LET objects == exporter.files[<<"patients.json">>]
             IN  [k \in 1 .. Len(objects) |-> objects[k].id] = PatientIds
          /\ \A k \in 1 .. Len(patients) : Written(<<"patients", patients[k].id, ".json">>)
          /\ Cardinality(DOMAIN exporter.files) = Len(patients) + 1
    /\ exporter.format = Some("csv") =>
          /\ Written(<<"patients.csv">>)
          /\ exporter.files[<<"patients.csv">>].header # <<>>
          /\ LET rows == exporter.files[<<"patients.csv">>].rows
             IN  [k \in 1 .. Len(rows) |-> rows[k].ID] = PatientIds

\* C18 (Spec), amended: an export of a list that is not empty and has at most
\* INDIVIDUAL_FILES_LIMIT patients writes one record for each patient, in the
\* order of the list, in each of the three formats; of an empty list the
\* FHIR and JSON collections are written, empty.
C18_OneRecordPerPatientOfNonEmptyList ==
    /\ (patients # <<>> /\ Len(patients) <= INDIVIDUAL_FILES_LIMIT) =>
           C18_OneRecordPerPatient
    /\ (patients = <<>> /\ exporter.format \in {Some("fhir"), Some("json")}) =>
           C18_OneRecordPerPatient

\* C18 witness: the CSV exporter has written a population of several
\* patients that the pool delivered in another order than that of the ordinals.
C18_Witness ==
    /\ phase = "exported"
    /\ exporter.format = Some("csv")
    /\ Len(patients) > SmallPopulation
    /\ \E k \in 1 .. (Len(patients) - 1) :
          \E i \in DOMAIN outcome : \E j \in DOMAIN outcome :
              /\ i > j
              /\ patients[k].id = PatientId(i)
              /\ patients[k + 1].id = PatientId(j)
    /\ Len(exporter.files[<<"patients.csv">>].rows) = Len(patients)

\* The while loop of _run_modules has ended; Dead and Complete are the two
\* ways the specification lets a simulation end
Ended == sim.pc = "after_loop"
Dead == ~sim.patient.is_alive
Complete == sim.patient.is_alive /\ sim.current_date > sim.end_date

C20_DeathDateAtEnd ==
    (sim.pc \in {"check", "done"} /\ ~sim.patient.is_alive) =>
        /\ sim.patient.death_date # None
        /\ sim.killed # None => sim.patient.death_date = Some(sim.killed[1].date)
        /\ sim.given.death_date # None => sim.patient.death_date = sim.given.death_date
        /\ (sim.killed = None /\ sim.given.death_date = None) =>
               /\ sim.patient.death_date[1] >= sim.current_date - time_step_days
               /\ sim.patient.death_date[1] <= sim.current_date

\* C20 witness: _run_modules has returned for a patient handed in dead and
\* without a death date, and has given it a date before the last value of the
\* clock.
C20_Witness ==
    /\ sim.pc = "done"
    /\ ~sim.given.is_alive
    /\ sim.given.death_date = None
    /\ sim.patient.death_date # None
    /\ sim.patient.death_date[1] < sim.current_date

\* C21 (SimSpec): the clock starts at the birth date and moves by exactly
\* one time step per iteration: the n-th time step begun is evaluated at
\* birth_date + 7 (n - 1), and between iterations the clock stands at
\* birth_date + 7 n, so that no date is skipped or repeated.
C21_ClockStepsFromBirth ==
    /\ sim.pc = "for" =>
          sim.current_date = sim.patient.birth_date + time_step_days * (sim.steps - 1)
    /\ sim.pc \in {"while", "after_loop"} =>
          sim.current_date = sim.patient.birth_date + time_step_days * sim.steps
    /\ \A e \in sim.posthumous \cup (IF sim.killed = None THEN {} ELSE {sim.killed[1]}) :
          e.date = sim.patient.birth_date + time_step_days * (e.step - 1)

\* C21 witness: the third time step of a patient is being evaluated, two
\* weeks after the birth date.
C21_Witness ==
    /\ sim.pc = "for"
    /\ sim.steps = 3
    /\ sim.k > 1
    /\ sim.current_date = sim.patient.birth_date + 14

\* The days from the birth of the patient to its death, or to today
Lifespan ==
    (IF sim.patient.death_date # None THEN sim.patient.death_date[1] ELSE sim.end_date)
        - sim.patient.birth_date

\* C22, as stated (RunLive): when the loop of a patient has ended, it has made
\* at most (lifespan in days / 7) iterations, and none when the lifespan is
\* negative.
C22_IterationsWithinLifespan ==
    Ended => time_step_days * sim.steps <= Max(Lifespan, 0)

\* C22, amended (RunLive): the loop of a patient always ends, with the exit
\* of the loop or with the exception of a module, and it makes no iteration
\* for a birth date after today and otherwise at most
\* (lifespan in days / 7) + 1 iterations, the iteration at the birth date
\* included.
C22_LoopEndsWithinLifespanPlusOne ==
    /\ [](sim.pc \in {"while", "for", "after_loop"} =>
             /\ sim.steps >= 0
             /\ sim.steps >= 1 => time_step_days * (sim.steps - 1) <= Lifespan)
    /\ (sim.pc = "while") ~> (sim.pc \in {"after_loop", "raised"})

\* C22 witness: the loop of a living patient has ended after two iterations
\* or more, one more than the whole weeks of its lifespan.
C22_Witness ==
    /\ Ended
    /\ ~Dead
    /\ sim.steps >= 2
    /\ sim.steps = (Lifespan \div time_step_days) + 1
    /\ Len(sim.sorted) > 0

\* C23 (SimSpec): at every time step a module marked "female only" is
\* processed for a female patient and for no other, and a module marked
\* "male only" is processed for a male patient and for no other.
C23_GenderRestrictedModules ==
    (sim.pc = "for" /\ sim.k <= Len(sim.sorted) /\ Has(Current, "remarks")) =>
        /\ Contains(FEMALE_ONLY, lower(Current.remarks)) =>
              (should_run_module(Current, sim.patient, ActiveConditions, sim.r).run
                  <=> sim.patient.gender = "female")
        /\ (Contains(MALE_ONLY, lower(Current.remarks))
               /\ ~Contains(FEMALE_ONLY, lower(Current.remarks))) =>
              (should_run_module(Current, sim.patient, ActiveConditions, sim.r).run
                  <=> sim.patient.gender = "male")

\* C24 (SimSpec): no step of generate_patient, _run_modules,
\* _should_run_module or _process_module changes the list of modules held by
\* the generator or a module in it.
C24_ModulesReadOnly == [][modules' = modules]_vars

\* C24 witness: a patient was returned after its modules were evaluated in
\* an order that is not the order of the list held by the generator.
C24_Witness ==
    /\ sim.pc = "returned"
    /\ sim.evaluations > 0
    /\ sim.sorted # modules

\* C25 (SimSpec): on a record returned by generate_patient, is_alive is
\* false exactly when death_date is set, and a death date that is set lies
\* between the birth date and today.
C25_DeathDateConsistent ==
    sim.pc = "returned" =>
        /\ ~sim.patient.is_alive <=> sim.patient.death_date # None
        /\ sim.patient.death_date # None =>
              /\ sim.patient.birth_date <= sim.patient.death_date[1]
              /\ sim.patient.death_date[1]
                     <= ToOrdinal(today.year, today.month, today.day)

\* C25 witness: generate_patient has returned a patient who died after its
\* day of birth.
C25_Witness ==
    /\ sim.pc = "returned"
    /\ ~sim.patient.is_alive
    /\ sim.patient.death_date # None
    /\ sim.patient.death_date[1] > sim.patient.birth_date

\* C26 (SimSpec): when 0 <= min_age <= max_age, a patient returned alive by
\* generate_patient is born on or before today and its age in whole years
\* today lies between min_age and max_age.
C26_AgeWithinConfiguredRange ==
    (/\ sim.pc = "returned"
     /\ sim.patient.is_alive
     /\ 0 <= config.min_age
     /\ config.min_age <= config.max_age) =>
        /\ sim.patient.birth_date <= ToOrdinal(today.year, today.month, today.day)
        /\ config.min_age <= age(sim.patient, today)
        /\ age(sim.patient, today) <= config.max_age

\* C27 (Spec): the list built by _generate_population holds at most one
\* record for each ordinal of 0 .. population_size - 1, and the ids of its
\* records are pairwise distinct, on either path and in any completion order.
C27_OneRecordPerOrdinal ==
    /\ \A k \in 1 .. Len(patients) :
          \E i \in 0 .. (config.population_size - 1) :
              /\ patients[k].id = PatientId(i)
              /\ i \in DOMAIN outcome
              /\ outcome[i] = "none"
    /\ \A k1, k2 \in 1 .. Len(patients) :
          k1 # k2 => patients[k1].id # patients[k2].id

\* C27 witness: a pooled run restricted to living patients has returned
\* several records, the first of which is not the record of ordinal 0.
C27_Witness ==
    /\ phase = "returned"
    /\ Dispatch(config) = "pool"
    /\ config.generate_only_living_patients
    /\ Len(patients) >= 2
    /\ patients[1].id # PatientId(0)

C29_RequiredStatesNeverMet ==
    (sim.pc = "for" /\ sim.k <= Len(sim.sorted) /\ Blocked(Current)) =>
        ~should_run_module(Current, sim.patient, ActiveConditions, sim.r).run

\* C29 witness: at the second or a later time step of a living patient, the
\* next module to evaluate declares a required state and has a Death state.
C29_Witness ==
    /\ sim.pc = "for"
    /\ sim.k <= Len(sim.sorted)
    /\ sim.steps >= 2
    /\ Blocked(Current)
    /\ Has(Current, "states")
    /\ sim.patient.is_alive

\* C30 (SimSpec): with a global seed, distinct ordinals have distinct derived
\* seeds, and the call for ordinal i under seed s ends as the call for
\* ordinal i + k under seed s - k does, after the same sequence of draws and
\* with the same patient but for its id.
C30_StreamDependsOnSum ==
    (sim.pc \in {"returned", "raised"} /\ config.seed # None) =>
        /\ \A i, j \in SimOrdinals :
              i # j => DerivedSeed(config, i) # DerivedSeed(config, j)
        /\ \A k \in {0 - 1, 1, 4} :
              sim.patient_id + k >= 0 =>
                  LET shifted == generate_patient(
                                     [config EXCEPT !.seed = Some(config.seed[1] - k)],
                                     modules, sim.patient_id + k, Stream(sim.r0),
                                     today, wall, 0)
                  IN  /\ shifted.r.log = sim.r.log
                      /\ shifted.exc = sim.exc
                      /\ sim.pc = "returned" =>
                            [shifted.patient EXCEPT !.id = sim.patient.id] = sim.patient

\* C30 witness: a seeded call for an ordinal above 0 has returned a patient
\* after more than ten draws.
C30_Witness ==
    /\ sim.pc = "returned"
    /\ config.seed # None
    /\ sim.patient_id >= 1
    /\ Len(sim.r.log) > 10

====
